---- MODULE Spec2Model ----
(***************************************************************************)
(* A model of CameraController (src/src/definitions.ts, lines 121-622):    *)
(* the capture session, the camera devices it discovers, the flash/torch   *)
(* and zoom configuration, the still/sample completion blocks and the tap  *)
(* and pinch gesture handlers.                                             *)
(*                                                                         *)
(* Zoom factors and pinch scales are CGFloat in the source; the model      *)
(* counts them in tenths (10 is 1.0, 20 is 2.0).                           *)
(*                                                                         *)
(* Every public method or callback of the controller is one action.  What  *)
(* AVFoundation decides (whether a device exists, whether the session      *)
(* accepts an input or output, whether lockForConfiguration or the input   *)
(* initialiser throws, what the photo callback delivers) is an input of    *)
(* the action, drawn from BOOLEAN or a small set.                          *)
(***************************************************************************)
EXTENDS Integers, Sequences, FiniteSets, TLC

None == "none"

\* ---------------------------------------------------------------- bounds
\* Number of captureImage / captureSample calls in one behaviour.
MaxRequests == 2
\* Number of beginConfiguration calls left without a commitConfiguration.
MaxOpenConfig == 1
\* Number of still captures in a behaviour that also changes flash and torch.
MaxFlashCaptures == 1
\* device.activeFormat.videoMaxZoomFactor of every modelled device, in tenths.
MaxZoomFactor == 20

\* ------------------------------------------------------ hardware universe
\* The physical cameras AVCaptureDevice.default(...) can return.
DeviceIds == {"triple", "wide", "front"}

\* Which cameras a phone may have (one element per modelled phone).
Phones == {{"triple", "wide", "front"}, {"wide", "front"}, {"wide"}, {"front"}}

\* AVCaptureDevice.FlashMode
FlashModes == {"off", "on", "auto"}

\* pinch.scale values delivered by the gesture recognizer, in tenths.
Scales == {5, 10, 12, 15, 40}

PinchStates == {"began", "changed", "ended", "cancelled"}

\* device.position of a discovered camera.
Position(d) == IF d = "front" THEN "front" ELSE "back"

\* device.deviceType == .builtInTripleCamera
IsTriple(d) == d = "triple"

\* device.hasFlash together with photoOutput.supportedFlashModes for an
\* attached device: the rear cameras have a flash, the front camera has none.
DeviceFlashModes(d) == IF d = "front" THEN {"off"} ELSE {"off", "on", "auto"}

\* device.hasTorch
HasTorch(d) == d # "front"

\* device.isTorchModeSupported(mode)
TorchModeSupported(d, mode) ==
    CASE d = "triple" -> mode \in {"off", "on", "auto"}
      [] d = "wide"   -> mode \in {"off", "auto"}
      [] OTHER        -> FALSE

\* device.isFocusModeSupported(.continuousAutoFocus)
FocusSupported(d) == d # "front"

\* device.isExposureModeSupported(.continuousAutoExposure)
ExposureSupported(d) == TRUE

\* device.isFocusPointOfInterestSupported
FocusPointSupported(d) == d # "front"

\* device.isExposurePointOfInterestSupported
ExposurePointSupported(d) == TRUE

\* tap.location(in:) converted to a device point: where a tap can land.
TapPoints == {"tapped"}

\* ------------------------------------------------------------------ state
VARIABLES
    present,         \* the cameras of this phone (fixed by the hardware)
    dev,             \* the AVCaptureDevice objects: zoom, torch, focus, exposure
    captureSession,  \* NoSession, or the AVCaptureSession of the last prepare
    frontCamera, rearCamera, currentCamera,   \* None or a device
    cameraInput,     \* None, or the device the AVCaptureDeviceInput wraps
    flashMode,       \* the stored AVCaptureDevice.FlashMode
    videoZoomFactor, \* the zoom factor committed by the last ended pinch
    photoCaptureCompletionBlock,        \* NoBlock (nil) or a request number
    sampleBufferCaptureCompletionBlock, \* NoBlock (nil) or a request number
    requests,        \* every capture call so far, with what its completion got
    hwPending,       \* photo requests whose hardware callback has not fired
    pinchActive,     \* the pinch recognizer is between began and ended
    lastOp           \* the last call and what it reported to its caller

vars == <<present, dev, captureSession, frontCamera, rearCamera, currentCamera,
          cameraInput, flashMode, videoZoomFactor, photoCaptureCompletionBlock,
          sampleBufferCaptureCompletionBlock, requests, hwPending, pinchActive,
          lastOp>>

hardwareVars == <<present>>
cameraVars == <<frontCamera, rearCamera, currentCamera, cameraInput>>
captureVars == <<photoCaptureCompletionBlock, sampleBufferCaptureCompletionBlock,
                 requests, hwPending>>
gestureVars == <<videoZoomFactor, pinchActive>>

\* A device as AVFoundation hands it out before the controller touched it:
\* zoom 1.0, torch off, focus and exposure modes and points of interest the
\* controller has not chosen ("default"), and not locked for configuration.
FreshDevice == [videoZoomFactor |-> 10, torchMode |-> "off",
                focusMode |-> "default", exposureMode |-> "default",
                focusPointOfInterest |-> "default",
                exposurePointOfInterest |-> "default",
                locked |-> FALSE]

\* device.lockForConfiguration() that did not throw.
lockForConfiguration(r) == [r EXCEPT !.locked = TRUE]

\* An unlock that is never executed.
unlockForConfiguration_Skipped(r) == r

\* device.unlockForConfiguration()
unlockForConfiguration(r) == [r EXCEPT !.locked = FALSE]

\* var captureSession: AVCaptureSession? before the first prepare (nil).
NoSession == [exists |-> FALSE, isRunning |-> FALSE, inputs |-> {},
              hasPhotoOutput |-> FALSE, openConfig |-> 0]

\* AVCaptureSession(): not running, nothing attached, no open configuration.
NewSession == [exists |-> TRUE, isRunning |-> FALSE, inputs |-> {},
               hasPhotoOutput |-> FALSE, openConfig |-> 0]

\* A completion block that is nil; request numbers start at 1.
NoBlock == 0

\* The record of a call: its name, its argument and the error it reported.
\* again flips when the same call with the same outcome is made twice in a
\* row, so that every call is a step that changes the state.
Op(name, arg, err) ==
    [op |-> name, arg |-> arg, err |-> err,
     again |-> (/\ lastOp.op = name
                /\ lastOp.arg = arg
                /\ lastOp.err = err
                /\ ~lastOp.again)]

Init ==
    /\ present \in Phones
    /\ dev = [d \in DeviceIds |-> FreshDevice]
    /\ captureSession = NoSession
    /\ frontCamera = None
    /\ rearCamera = None
    /\ currentCamera = None
    /\ cameraInput = None
    /\ flashMode = "off"
    /\ videoZoomFactor = 10
    /\ photoCaptureCompletionBlock = NoBlock
    /\ sampleBufferCaptureCompletionBlock = NoBlock
    /\ requests = <<>>
    /\ hwPending = {}
    /\ pinchActive = FALSE
    /\ lastOp = [op |-> "init", arg |-> None, err |-> None, again |-> FALSE]

\* A guard that forgets captureSession.isRunning.
SessionRunning_ExistsOnly == captureSession.exists

\* guard let captureSession = self.captureSession, captureSession.isRunning
SessionRunning == captureSession.exists /\ captureSession.isRunning

\* ------------------------------------------------- configureCameraSettings
\* The device after the baseline configuration was written to it.
BaselineApplied(d, r) ==
    [r EXCEPT !.focusMode = IF FocusSupported(d) THEN "continuous" ELSE @,
              !.exposureMode = IF ExposureSupported(d) THEN "continuous" ELSE @,
              !.videoZoomFactor = IF IsTriple(d) THEN 20 ELSE @]

\* configureCameraSettings(): the error it throws (None when it returns) and
\* the devices afterwards.  lockOk: lockForConfiguration() did not throw.
configureCameraSettings(cam, devs, lockOk) ==
    IF cam = None THEN [err |-> "noCamerasAvailable", dev |-> devs]
    ELSE IF ~lockOk THEN [err |-> "lockError", dev |-> devs]
    ELSE [err |-> None,
          dev |-> [devs EXCEPT ![cam] =
                      unlockForConfiguration(
                          BaselineApplied(cam, lockForConfiguration(@)))]]

\* ------------------------------------------------- initializeCameraDevices
\* A discovery that asks for the wide-angle camera first.
DiscoverRear_WideFirst ==
    IF "wide" \in present THEN "wide"
    ELSE IF "triple" \in present THEN "triple" ELSE None

\* AVCaptureDevice.default(.builtInTripleCamera ...) else (.builtInWideAngleCamera ...)
DiscoverRear ==
    IF "triple" \in present THEN "triple"
    ELSE IF "wide" \in present THEN "wide" ELSE None

\* A discovery that hands out the rear camera when there is no front camera.
DiscoverFront_FallsBackToRear ==
    IF "front" \in present THEN "front" ELSE DiscoverRear

\* frontCamera is only assigned when a front camera is found.
DiscoverFront == IF "front" \in present THEN "front" ELSE frontCamera

\* ----------------------------------------------------------------- prepare
\* prepare(cameraPosition:enableHighResolution:completionHandler:); lastOp.err
\* is what the completion handler is called with.
\* inputThrows: AVCaptureDeviceInput(device:) throws; canAddInput,
\* canAddOutput: the session's answers; lockThrows: lockForConfiguration() in
\* configureCameraSettings throws.
Prepare(cameraPosition) ==
    LET rear == DiscoverRear
        front == DiscoverFront
        found == \/ cameraPosition = "rear" /\ rear # None
                 \/ cameraPosition = "front" /\ front # None
        cam == IF cameraPosition = "rear" THEN rear ELSE front
    IN  /\ rearCamera' = rear
        /\ frontCamera' = front
        /\ IF ~found
           THEN /\ captureSession' = NewSession
                /\ UNCHANGED <<currentCamera, cameraInput, dev>>
                /\ lastOp' = Op("prepare", cameraPosition, "noCamerasAvailable")
           ELSE \E inputThrows \in BOOLEAN :
                IF inputThrows
                THEN /\ captureSession' = NewSession
                     /\ currentCamera' = cam
                     /\ UNCHANGED <<cameraInput, dev>>
                     /\ lastOp' = Op("prepare", cameraPosition, "noCamerasAvailable")
                ELSE \E canAddInput, canAddOutput, lockThrows \in BOOLEAN :
                     LET cfg == configureCameraSettings(cam, dev, ~lockThrows)
                     IN  /\ captureSession' =
                               [exists |-> TRUE, isRunning |-> TRUE,
                                inputs |-> IF canAddInput THEN {cam} ELSE {},
                                hasPhotoOutput |-> canAddOutput,
                                openConfig |-> 0]
                         /\ currentCamera' = cam
                         /\ cameraInput' = cam
                         /\ dev' = cfg.dev
                         /\ lastOp' = Op("prepare", cameraPosition, cfg.err)
        /\ UNCHANGED <<hardwareVars, flashMode, captureVars, gestureVars>>

\* -------------------------------------------------------------------- stop
\* A stop that tears the session down.
Stop_DiscardsSession ==
    /\ captureSession' = NoSession
    /\ lastOp' = Op("stop", None, None)
    /\ UNCHANGED <<hardwareVars, dev, cameraVars, flashMode, captureVars,
                   gestureVars>>

\* self.captureSession?.stopRunning()
Stop ==
    /\ captureSession' =
           IF captureSession.exists
           THEN [captureSession EXCEPT !.isRunning = FALSE]
           ELSE captureSession
    /\ lastOp' = Op("stop", None, None)
    /\ UNCHANGED <<hardwareVars, dev, cameraVars, flashMode, captureVars,
                   gestureVars>>

\* ----------------------------------------------------------- switchCameras
\* The camera of the opposite position: case .front: switchToRearCamera(),
\* case .back: switchToFrontCamera().
OppositeCamera(d) == IF Position(d) = "front" THEN rearCamera ELSE frontCamera

\* A guard that forgets to unwrap the target camera.
CanSwitchTo_AnyTarget(target) ==
    /\ cameraInput # None
    /\ cameraInput \in captureSession.inputs

\* The guard of switchToFrontCamera / switchToRearCamera: the recorded input
\* is attached and the target camera was discovered.
CanSwitchTo(target) ==
    /\ cameraInput # None
    /\ cameraInput \in captureSession.inputs
    /\ target # None

\* captureSession.beginConfiguration() / commitConfiguration()
beginConfiguration(s) == [s EXCEPT !.openConfig = @ + 1]
commitConfiguration(s) == [s EXCEPT !.openConfig = @ - 1]

\* A removeInput that leaves the input attached.
removeInput_Keeps(s, input) == s

\* captureSession.removeInput(cameraInput) / addInput(newCameraInput)
removeInput(s, input) == [s EXCEPT !.inputs = @ \ {input}]
addInput(s, input) == [s EXCEPT !.inputs = @ \cup {input}]

\* switchCameras(); lastOp.arg is the position it starts from, lastOp.err the
\* error it throws.  inputThrows: AVCaptureDeviceInput(device:) throws;
\* canAddInput: the session's answer; lockThrows: lockForConfiguration() in
\* configureCameraSettings throws (try? drops that error).
SwitchCameras ==
    LET from == IF currentCamera = None THEN None ELSE Position(currentCamera)
        target == OppositeCamera(currentCamera)
        begun == beginConfiguration(captureSession)
        removed == removeInput(begun, cameraInput)
        added == addInput(removed, target)
    IN  /\ SessionRunning => captureSession.openConfig < MaxOpenConfig
        /\ IF ~SessionRunning
           THEN /\ lastOp' = Op("switchCameras", from, "captureSessionIsMissing")
                /\ UNCHANGED <<captureSession, currentCamera, cameraInput, dev>>
           ELSE IF currentCamera = None
           THEN /\ lastOp' = Op("switchCameras", from, "noCamerasAvailable")
                /\ UNCHANGED <<captureSession, currentCamera, cameraInput, dev>>
           ELSE IF ~CanSwitchTo(target)
           THEN /\ captureSession' = begun
                /\ lastOp' = Op("switchCameras", from, "invalidOperation")
                /\ UNCHANGED <<currentCamera, cameraInput, dev>>
           ELSE \E inputThrows \in BOOLEAN :
                IF inputThrows
                THEN /\ captureSession' = removed
                     /\ lastOp' = Op("switchCameras", from, "inputError")
                     /\ UNCHANGED <<currentCamera, cameraInput, dev>>
                ELSE \E canAddInput \in BOOLEAN :
                     IF ~canAddInput
                     THEN /\ captureSession' = removed
                          /\ lastOp' = Op("switchCameras", from, "invalidOperation")
                          /\ UNCHANGED <<currentCamera, cameraInput, dev>>
                     ELSE \E lockThrows \in BOOLEAN :
                          /\ captureSession' = commitConfiguration(added)
                          /\ cameraInput' = target
                          /\ currentCamera' = target
                          /\ dev' = configureCameraSettings(target, dev, ~lockThrows).dev
                          /\ lastOp' = Op("switchCameras", from, None)
        /\ UNCHANGED <<hardwareVars, frontCamera, rearCamera, flashMode,
                       captureVars, gestureVars>>

\* ------------------------------------------------ captureImage / captureSample
\* One capture call: which kind, whether the running-session guard let it
\* through, the flash mode handed to the hardware, and every (image, error)
\* pair its completion has been called with.
Request(kind, accepted, flash, results) ==
    [kind |-> kind, accepted |-> accepted, flash |-> flash, results |-> results]

\* captureImage(completion:)
CaptureImage ==
    LET id == Len(requests) + 1
    IN  /\ Len(requests) < MaxRequests
        /\ IF ~SessionRunning
           THEN /\ requests' = Append(requests,
                        Request("photo", FALSE, None, <<"captureSessionIsMissing">>))
                /\ lastOp' = Op("captureImage", None, "captureSessionIsMissing")
                /\ UNCHANGED <<hwPending, photoCaptureCompletionBlock>>
           ELSE /\ requests' = Append(requests,
                        Request("photo", TRUE, flashMode, <<>>))
                /\ hwPending' = hwPending \cup {id}
                /\ photoCaptureCompletionBlock' = id
                /\ lastOp' = Op("captureImage", None, None)
        /\ UNCHANGED <<hardwareVars, dev, captureSession, cameraVars, flashMode,
                       sampleBufferCaptureCompletionBlock, gestureVars>>

\* captureSample(completion:)
CaptureSample ==
    LET id == Len(requests) + 1
    IN  /\ Len(requests) < MaxRequests
        /\ IF ~SessionRunning
           THEN /\ requests' = Append(requests,
                        Request("sample", FALSE, None, <<"captureSessionIsMissing">>))
                /\ lastOp' = Op("captureSample", None, "captureSessionIsMissing")
                /\ UNCHANGED sampleBufferCaptureCompletionBlock
           ELSE /\ requests' = Append(requests,
                        Request("sample", TRUE, None, <<>>))
                /\ sampleBufferCaptureCompletionBlock' = id
                /\ lastOp' = Op("captureSample", None, None)
        /\ UNCHANGED <<hardwareVars, dev, captureSession, cameraVars, flashMode,
                       photoCaptureCompletionBlock, hwPending, gestureVars>>

\* What photoOutput(_:didFinishProcessingPhoto:error:) passes to the block.
PhotoOutcomes == {"error", "noImage", "image"}

\* A callback that passes an undecodable photo on as an image.
PhotoResult_NoImageIsImage(outcome) ==
    CASE outcome = "error" -> "hwError"
      [] OTHER             -> "image"

PhotoResult(outcome) ==
    CASE outcome = "error"   -> "hwError"
      [] outcome = "noImage" -> "unknown"
      [] OTHER               -> "image"

\* self.photoCaptureCompletionBlock?(...): the block stored now is called.
CallBlock(block, result, reqs) ==
    IF block = NoBlock THEN reqs
    ELSE [reqs EXCEPT ![block].results = Append(@, result)]

\* photoOutput(_:didFinishProcessingPhoto:error:) for hardware capture h.
PhotoOutputCallback(h, outcome) ==
    /\ h \in hwPending
    /\ hwPending' = hwPending \ {h}
    /\ requests' = CallBlock(photoCaptureCompletionBlock, PhotoResult(outcome),
                             requests)
    /\ lastOp' = Op("photoOutput", outcome, None)
    /\ UNCHANGED <<hardwareVars, dev, captureSession, cameraVars, flashMode,
                   photoCaptureCompletionBlock,
                   sampleBufferCaptureCompletionBlock, gestureVars>>

\* previewLayer.session = captureSession: a running session with an input
\* delivers a preview frame to the preview layer.  The session has no video
\* data output and the controller no sample buffer delegate, so no code of
\* the controller runs on a frame.
PreviewFrame ==
    /\ SessionRunning
    /\ captureSession.inputs # {}
    /\ lastOp' = Op("previewFrame", None, None)
    /\ UNCHANGED <<hardwareVars, dev, captureSession, cameraVars, flashMode,
                   captureVars, gestureVars>>

\* ------------------------------------------------- setFlashMode / setTorchMode
\* self.photoOutput.supportedFlashModes: what the photo output supports for
\* the camera it is connected to through the session; nothing when the output
\* is not in the session or the session has no input.
SupportedFlashModes ==
    IF captureSession.hasPhotoOutput
    THEN UNION {DeviceFlashModes(d) : d \in captureSession.inputs}
    ELSE {}

\* The device after setFlashMode's torch reset (lines 489-491).
TorchResetForFlash(d, r, torchAvailable) ==
    IF HasTorch(d) /\ torchAvailable /\ r.torchMode = "on"
    THEN [r EXCEPT !.torchMode = "off"]
    ELSE r

\* A setFlashMode without the supportedFlashModes check of line 482.
SetFlashMode_NoSupportCheck(m, torchAvailable, lockOk) ==
    /\ IF currentCamera = None
       THEN /\ lastOp' = Op("setFlashMode", m, "noCamerasAvailable")
            /\ UNCHANGED <<dev, flashMode>>
       ELSE IF ~lockOk
       THEN /\ lastOp' = Op("setFlashMode", m, "invalidOperation")
            /\ UNCHANGED <<dev, flashMode>>
       ELSE /\ dev' = [dev EXCEPT ![currentCamera] =
                          unlockForConfiguration(
                              TorchResetForFlash(currentCamera,
                                                 lockForConfiguration(@),
                                                 torchAvailable))]
            /\ flashMode' = m
            /\ lastOp' = Op("setFlashMode", m, None)
    /\ UNCHANGED <<hardwareVars, captureSession, cameraVars, captureVars,
                   gestureVars>>

\* setFlashMode(flashMode:).  torchAvailable: device.isTorchAvailable.
SetFlashMode(m, torchAvailable, lockOk) ==
    /\ IF currentCamera = None
       THEN /\ lastOp' = Op("setFlashMode", m, "noCamerasAvailable")
            /\ UNCHANGED <<dev, flashMode>>
       ELSE IF m \notin SupportedFlashModes
       THEN /\ lastOp' = Op("setFlashMode", m, None)
            /\ UNCHANGED <<dev, flashMode>>
       ELSE IF ~lockOk
       THEN /\ lastOp' = Op("setFlashMode", m, "invalidOperation")
            /\ UNCHANGED <<dev, flashMode>>
       ELSE /\ dev' = [dev EXCEPT ![currentCamera] =
                          unlockForConfiguration(
                              TorchResetForFlash(currentCamera,
                                                 lockForConfiguration(@),
                                                 torchAvailable))]
            /\ flashMode' = m
            /\ lastOp' = Op("setFlashMode", m, None)
    /\ UNCHANGED <<hardwareVars, captureSession, cameraVars, captureVars,
                   gestureVars>>

\* A choice that prefers torch mode auto to on.
PickTorchMode_AutoFirst(d) ==
    IF TorchModeSupported(d, "auto") THEN "auto"
    ELSE IF TorchModeSupported(d, "on") THEN "on"
    ELSE "off"

\* The torch mode setTorchMode picks (lines 513-519).
PickTorchMode(d) ==
    IF TorchModeSupported(d, "on") THEN "on"
    ELSE IF TorchModeSupported(d, "auto") THEN "auto"
    ELSE "off"

\* setTorchMode()
SetTorchMode(torchAvailable, lockOk) ==
    /\ IF currentCamera = None \/ ~HasTorch(currentCamera) \/ ~torchAvailable
       THEN /\ lastOp' = Op("setTorchMode", None, "invalidOperation")
            /\ UNCHANGED dev
       ELSE IF ~lockOk
       THEN /\ lastOp' = Op("setTorchMode", None, "invalidOperation")
            /\ UNCHANGED dev
       ELSE /\ dev' = [dev EXCEPT ![currentCamera] =
                          unlockForConfiguration(
                              [lockForConfiguration(@) EXCEPT
                                   !.torchMode = PickTorchMode(currentCamera)])]
            /\ lastOp' = Op("setTorchMode", None, None)
    /\ UNCHANGED <<hardwareVars, captureSession, cameraVars, flashMode,
                   captureVars, gestureVars>>

\* ---------------------------------------------------------------- handleTap
\* The device after a tap at point was written to it (lines 579-589).
TapApplied(d, r, point) ==
    LET focused ==
            IF FocusPointSupported(d) /\ FocusSupported(d)
            THEN [r EXCEPT !.focusPointOfInterest = point,
                           !.focusMode = "continuous"]
            ELSE r
    IN  IF ExposurePointSupported(d) /\ ExposureSupported(d)
        THEN [focused EXCEPT !.exposurePointOfInterest = point,
                             !.exposureMode = "continuous"]
        ELSE focused

\* handleTap(_:); a lockForConfiguration() that throws is printed and dropped.
HandleTap(point, lockOk) ==
    /\ lastOp' = Op("handleTap", point, None)
    /\ IF currentCamera = None \/ ~lockOk
       THEN UNCHANGED dev
       ELSE dev' = [dev EXCEPT ![currentCamera] =
                       unlockForConfiguration(
                           TapApplied(currentCamera, lockForConfiguration(@),
                                      point))]
    /\ UNCHANGED <<hardwareVars, captureSession, cameraVars, flashMode,
                   captureVars, gestureVars>>

\* -------------------------------------------------------------- handlePinch
Max(a, b) == IF a >= b THEN a ELSE b
Min(a, b) == IF a <= b THEN a ELSE b

\* A clamp without the lower bound 1.0.
minMaxZoom_NoFloor(factor) == Min(factor, MaxZoomFactor)

\* minMaxZoom(_:): max(1.0, min(factor, device.activeFormat.videoMaxZoomFactor))
minMaxZoom(factor) == Max(10, Min(factor, MaxZoomFactor))

\* update(scale:): the zoom is written unless lockForConfiguration() throws;
\* the error is printed and dropped.
update(d, r, factor, lockOk) ==
    IF lockOk
    THEN unlockForConfiguration(
             [lockForConfiguration(r) EXCEPT !.videoZoomFactor = factor])
    ELSE r

\* handlePinch(_:) for one event of the pinch recognizer.  UIKit delivers
\* began first, then changed events, then ended or cancelled.
HandlePinch(state, scale, lockOk) ==
    /\ pinchActive = (state # "began")
    /\ pinchActive' = (state \in {"began", "changed"})
    /\ lastOp' = Op("handlePinch", state, None)
    /\ IF currentCamera = None
       THEN UNCHANGED <<dev, videoZoomFactor>>
       ELSE IF state \in {"began", "changed"}
       THEN /\ dev' = [dev EXCEPT ![currentCamera] =
                          update(currentCamera, @, minMaxZoom(scale), lockOk)]
            /\ UNCHANGED videoZoomFactor
       ELSE IF state = "ended"
       THEN /\ videoZoomFactor' = dev[currentCamera].videoZoomFactor
            /\ UNCHANGED dev
       ELSE UNCHANGED <<dev, videoZoomFactor>>
    /\ UNCHANGED <<hardwareVars, captureSession, cameraVars, flashMode,
                   captureVars>>

\* ------------------------------------------------------------ specifications
\* Each specification runs the session lifecycle together with one group of
\* operations.  The groups write different fields: captures write the
\* completion blocks and the request log, flash and torch write flashMode and
\* torchMode, the pinch writes the zoom.
PrepareStep == \E p \in {"rear", "front"} : Prepare(p)
CallbackStep ==
    \E h \in 1..MaxRequests, o \in PhotoOutcomes : PhotoOutputCallback(h, o)
FlashStep == \E m \in FlashModes, t, l \in BOOLEAN : SetFlashMode(m, t, l)
TorchStep == \E t, l \in BOOLEAN : SetTorchMode(t, l)
PinchStep ==
    \E st \in PinchStates, sc \in Scales, l \in BOOLEAN : HandlePinch(st, sc, l)
TapStep == \E p \in TapPoints, l \in BOOLEAN : HandleTap(p, l)

\* The session lifecycle: prepare, stop and switchCameras.
NextSession ==
    \/ PrepareStep
    \/ Stop
    \/ SwitchCameras

SpecSession == Init /\ [][NextSession]_vars

\* Starting and stopping the session with the two kinds of capture.
NextCapture ==
    \/ PrepareStep
    \/ Stop
    \/ CaptureImage
    \/ CaptureSample
    \/ CallbackStep

SpecCapture == Init /\ [][NextCapture]_vars

\* Starting and stopping the session with captureSample and the preview
\* frame stream; frames keep being delivered while the session can deliver.
NextSample ==
    \/ PrepareStep
    \/ Stop
    \/ CaptureSample
    \/ PreviewFrame

SpecSample == Init /\ [][NextSample]_vars /\ WF_vars(PreviewFrame)

\* The session lifecycle with flash, torch and still capture.
FlashCaptureStep == Len(requests) < MaxFlashCaptures /\ CaptureImage

NextFlash ==
    \/ PrepareStep
    \/ Stop
    \/ SwitchCameras
    \/ FlashStep
    \/ TorchStep
    \/ FlashCaptureStep

SpecFlash == Init /\ [][NextFlash]_vars

\* The session lifecycle with the pinch gesture.
NextZoom ==
    \/ PrepareStep
    \/ Stop
    \/ SwitchCameras
    \/ PinchStep

SpecZoom == Init /\ [][NextZoom]_vars

\* Starting and stopping the session with the pinch gesture.
NextPinch ==
    \/ PrepareStep
    \/ Stop
    \/ PinchStep

SpecPinch == Init /\ [][NextPinch]_vars

\* The session lifecycle with every operation that locks the device.  Which
\* flash mode or pinch scale is asked for does not change where an operation
\* locks and unlocks, so the flash and the pinch come with one value each:
\* flash mode on (supported by the rear cameras, not by the front camera) and
\* scale 1.5.  A switch starts only with no configuration left open.
LockSwitchStep == captureSession.openConfig = 0 /\ SwitchCameras
LockFlashStep == \E t, l \in BOOLEAN : SetFlashMode("on", t, l)
LockPinchStep == \E st \in PinchStates, l \in BOOLEAN : HandlePinch(st, 15, l)

NextLock ==
    \/ PrepareStep
    \/ Stop
    \/ LockSwitchStep
    \/ LockFlashStep
    \/ TorchStep
    \/ TapStep
    \/ LockPinchStep

SpecLock == Init /\ [][NextLock]_vars

\* The session lifecycle with the torch, and with setFlashMode(on), which
\* stores a flash mode and turns a torch in mode on off again.
NextTorch ==
    \/ PrepareStep
    \/ Stop
    \/ LockSwitchStep
    \/ LockFlashStep
    \/ TorchStep

SpecTorch == Init /\ [][NextTorch]_vars

\* The session lifecycle with the operations that write what stop has to
\* keep: the attached input and current camera (switchCameras), the stored
\* flash mode (setFlashMode) and the zoom (handlePinch).
NextStop ==
    \/ PrepareStep
    \/ Stop
    \/ LockSwitchStep
    \/ LockFlashStep
    \/ LockPinchStep

SpecStop == Init /\ [][NextStop]_vars

\* ------------------------------------------------------------------ claims
\* What the claims speak about, written out on the state.
Running == captureSession.exists /\ captureSession.isRunning
LastRequest == requests[Len(requests)]
AcceptedPhotos ==
    {i \in 1..Len(requests) : requests[i].kind = "photo" /\ requests[i].accepted}
PendingRequests ==
    {i \in 1..Len(requests) : requests[i].accepted /\ requests[i].results = <<>>}

\* C1: a prepare while the session of an earlier prepare is still running
\* reports CaptureSessionAlreadyRunning.
C1_PrepareWhileRunningFails ==
    [][(Running /\ lastOp'.op = "prepare")
          => lastOp'.err = "captureSessionAlreadyRunning"]_vars

\* C2: no accepted still capture ever has its completion called twice, and
\* once every hardware callback has fired each accepted still capture has had
\* its completion called exactly once.
C2_EachCompletionExactlyOnce ==
    /\ \A i \in AcceptedPhotos : Len(requests[i].results) <= 1
    /\ hwPending = {} => \A i \in AcceptedPhotos : Len(requests[i].results) = 1

\* C3: stop fulfills every capture that is accepted and not yet fulfilled with
\* CaptureSessionIsMissing.
C3_StopFulfillsPending ==
    [][lastOp'.op = "stop"
          => \A i \in PendingRequests :
                 requests'[i].results = <<"captureSessionIsMissing">>]_vars

\* C4: captureImage or captureSample without a running session calls its
\* completion at once with CaptureSessionIsMissing, starts no hardware capture
\* and leaves both completion blocks as they were.
C4_CaptureWithoutSessionFails ==
    [][(lastOp'.op \in {"captureImage", "captureSample"} /\ ~Running)
          => /\ Len(requests') = Len(requests) + 1
             /\ requests'[Len(requests')].results = <<"captureSessionIsMissing">>
             /\ ~requests'[Len(requests')].accepted
             /\ \A i \in 1..Len(requests) : requests'[i] = requests[i]
             /\ hwPending' = hwPending
             /\ photoCaptureCompletionBlock' = photoCaptureCompletionBlock
             /\ sampleBufferCaptureCompletionBlock'
                    = sampleBufferCaptureCompletionBlock]_vars

\* C4 witness: a still capture was refused after stop while the block of an
\* earlier, accepted capture is still stored.
C4_Witness ==
    /\ lastOp.op = "captureImage"
    /\ lastOp.err = "captureSessionIsMissing"
    /\ captureSession.exists
    /\ ~captureSession.isRunning
    /\ photoCaptureCompletionBlock # NoBlock
    /\ hwPending # {}

\* C5: after switchCameras has returned, on whatever path, the session has no
\* configuration that was begun and not committed.
C5_ConfigurationCommitted ==
    lastOp.op = "switchCameras" => captureSession.openConfig = 0

\* C6: a began/changed pinch event with scale s that reaches the device sets
\* its zoom to clamp(c * s, 1.0, maxZoom), c the factor committed by the last
\* ended pinch.
C6_PinchMultipliesCommittedZoom ==
    [][\A s \in Scales :
          (/\ currentCamera # None
           /\ \E st \in {"began", "changed"} : HandlePinch(st, s, TRUE))
          => dev'[currentCamera].videoZoomFactor
                 = Max(10, Min((videoZoomFactor * s) \div 10, MaxZoomFactor))]_vars

\* C7: a successful setTorchMode on a camera that supports torch mode on,
\* called while the stored flash mode is on, ends with the torch on and the
\* stored flash mode no longer on.
C7_TorchClearsFlash ==
    [][(/\ lastOp'.op = "setTorchMode"
        /\ lastOp'.err = None
        /\ currentCamera # None
        /\ TorchModeSupported(currentCamera, "on")
        /\ flashMode = "on")
          => /\ dev'[currentCamera].torchMode = "on"
             /\ flashMode' # "on"]_vars

\* The capture that follows a setFlashMode(lastOp.arg) call at once.
CaptureFollowsSetFlash ==
    /\ lastOp.op = "setFlashMode"
    /\ lastOp.arg \in SupportedFlashModes
    /\ Running
    /\ lastOp'.op = "captureImage"

\* The hardware capture of this step was issued with flash mode m.
CaptureIssuedWith(m) ==
    /\ Len(requests') = Len(requests) + 1
    /\ requests'[Len(requests')].accepted
    /\ requests'[Len(requests')].flash = m
    /\ Len(requests') \in hwPending'

\* This step is setFlashMode(m) with m outside the supported set.
SetsUnsupportedFlash(m) ==
    /\ lastOp'.op = "setFlashMode"
    /\ lastOp'.arg = m
    /\ m \notin SupportedFlashModes

FlashUntouched ==
    /\ lastOp'.err = None
    /\ flashMode' = flashMode
    /\ dev' = dev

\* C8 as stated: for every supported m, setFlashMode(m) followed by
\* captureImage on a running session issues the capture with m; for every
\* unsupported m, setFlashMode(m) returns without error and changes neither
\* the stored flash mode nor the torch.
C8_Original ==
    [][/\ CaptureFollowsSetFlash => CaptureIssuedWith(lastOp.arg)
       /\ \A m \in FlashModes : SetsUnsupportedFlash(m) => FlashUntouched]_vars

\* C8 as amended: for every supported m, a setFlashMode(m) that returned
\* without error, followed by captureImage on a running session, issues the
\* capture with m; for every unsupported m and a selected camera,
\* setFlashMode(m) returns without error and changes neither the stored flash
\* mode nor the torch.
C8_FlashModeUsedByCapture ==
    [][/\ (CaptureFollowsSetFlash /\ lastOp.err = None)
             => CaptureIssuedWith(lastOp.arg)
       /\ \A m \in FlashModes :
             (SetsUnsupportedFlash(m) /\ currentCamera # None)
                 => FlashUntouched]_vars

\* C8 witness: a capture was issued with flash mode auto, which only a
\* setFlashMode(auto) on a camera with flash can have stored.
C8_Witness ==
    /\ lastOp.op = "captureImage"
    /\ lastOp.err = None
    /\ Len(requests) > 0
    /\ LastRequest.accepted
    /\ LastRequest.flash = "auto"
    /\ "auto" \in SupportedFlashModes

\* The baseline configuration of camera d is in force.
HasBaseline(d, r) ==
    /\ FocusSupported(d) => r.focusMode = "continuous"
    /\ ExposureSupported(d) => r.exposureMode = "continuous"
    /\ r.videoZoomFactor = IF IsTriple(d) THEN 20 ELSE 10

\* C9: the second of two successive successful switchCameras calls ends with
\* the current camera at the position the first call started from, exactly
\* that camera's input attached, and that camera's baseline configuration.
C9_SwitchTwiceRestoresBaseline ==
    [][(/\ lastOp.op = "switchCameras"
        /\ lastOp.err = None
        /\ lastOp'.op = "switchCameras"
        /\ lastOp'.err = None)
          => /\ Position(currentCamera') = lastOp.arg
             /\ captureSession'.inputs = {currentCamera'}
             /\ HasBaseline(currentCamera', dev'[currentCamera'])]_vars

\* C10: switchCameras on a running session whose opposite camera was never
\* discovered throws InvalidOperation and leaves the current camera, the
\* recorded input and the session's inputs as they were.
C10_SwitchWithoutOppositeFails ==
    [][(/\ lastOp'.op = "switchCameras"
        /\ Running
        /\ currentCamera # None
        /\ (IF Position(currentCamera) = "front" THEN rearCamera
                                                 ELSE frontCamera) = None)
          => /\ lastOp'.err = "invalidOperation"
             /\ currentCamera' = currentCamera
             /\ cameraInput' = cameraInput
             /\ captureSession'.inputs = captureSession.inputs]_vars

\* C10 witness: a switch failed with InvalidOperation on a running session
\* whose recorded input is attached and whose opposite camera is missing.
C10_Witness ==
    /\ lastOp.op = "switchCameras"
    /\ lastOp.err = "invalidOperation"
    /\ Running
    /\ cameraInput \in captureSession.inputs
    /\ currentCamera = "wide"
    /\ frontCamera = None

\* C11: switchCameras without a capture session, or with a session that is
\* not running (before prepare, after a failed prepare, after stop), throws
\* CaptureSessionIsMissing and leaves the current camera, the recorded input,
\* the session with its attached inputs and every device as they were.
C11_SwitchWithoutSessionFails ==
    [][(lastOp'.op = "switchCameras" /\ ~Running)
          => /\ lastOp'.err = "captureSessionIsMissing"
             /\ currentCamera' = currentCamera
             /\ cameraInput' = cameraInput
             /\ captureSession' = captureSession
             /\ dev' = dev]_vars

\* C11 witness: a switch was refused on a stopped session that has its input
\* attached and both cameras discovered, so that only the running check
\* stands between the call and a switch.
C11_Witness ==
    /\ lastOp.op = "switchCameras"
    /\ lastOp.err = "captureSessionIsMissing"
    /\ captureSession.exists
    /\ ~captureSession.isRunning
    /\ cameraInput \in captureSession.inputs
    /\ frontCamera # None
    /\ rearCamera # None

\* C12: the capture session never has more than one device input attached.
C12_AtMostOneInput == Cardinality(captureSession.inputs) <= 1

\* C12 witness: the second of two switches in a row succeeded and the session
\* holds exactly the input of the camera switched to.
C12_Witness ==
    /\ lastOp.op = "switchCameras"
    /\ lastOp.err = None
    /\ lastOp.arg = "front"
    /\ currentCamera = "triple"
    /\ captureSession.inputs = {"triple"}
    /\ dev["front"].focusMode = "default"
    /\ dev["front"].exposureMode = "continuous"

\* C13: between operations no device is locked for configuration: whatever
\* configureCameraSettings (in prepare and switchCameras), setFlashMode,
\* setTorchMode, handleTap and handlePinch did, on whatever exit path, the
\* lock they took is released when they return.
C13_LockReleased == \A d \in DeviceIds : ~dev[d].locked

\* C13 witness: a tap took the lock of the rear camera and wrote its points of
\* interest, after a pinch had locked the same camera to write zoom 1.5 and
\* setFlashMode had locked it to store flash mode on.
C13_Witness ==
    /\ lastOp.op = "handleTap"
    /\ currentCamera = "triple"
    /\ dev["triple"].focusPointOfInterest = "tapped"
    /\ dev["triple"].videoZoomFactor = 15
    /\ dev["triple"].torchMode = "off"
    /\ flashMode = "on"
    /\ ~dev["triple"].locked

\* The rear cameras of this phone.
RearCameras == present \cap {"triple", "wide"}

Clamp(z) == IF z < 10 THEN 10 ELSE IF z > MaxZoomFactor THEN MaxZoomFactor ELSE z

\* C15: a began or changed pinch event with scale z that reaches the device (a
\* camera is selected and the device lock is granted) leaves the device zoom
\* at clamp(z, 1.0, deviceMaxZoom), and the handler reports no error for any z.
C15_PinchZoomClamped ==
    [][\A z \in Scales :
          (/\ currentCamera # None
           /\ \E st \in {"began", "changed"} : HandlePinch(st, z, TRUE))
          => /\ dev'[currentCamera].videoZoomFactor = Clamp(z)
             /\ lastOp'.err = None]_vars

\* C15 witness: a pinch event above the maximum left the wide-angle camera,
\* whose baseline zoom is 1.0, at the maximum zoom.
C15_Witness ==
    /\ lastOp.op = "handlePinch"
    /\ lastOp.arg \in {"began", "changed"}
    /\ currentCamera = "wide"
    /\ dev["wide"].videoZoomFactor = MaxZoomFactor

\* prepare(position) was asked for a position this phone has no camera at.
NoDeviceAt(position) ==
    \/ position = "rear" /\ RearCameras = {}
    \/ position = "front" /\ "front" \notin present

\* C16: prepare(position) for a position without a camera reports
\* NoCamerasAvailable, also when the other position has one, and leaves a
\* session that is not running and has no input attached.
C16_PrepareWithoutDeviceFails ==
    [][(lastOp'.op = "prepare" /\ NoDeviceAt(lastOp'.arg))
          => /\ lastOp'.err = "noCamerasAvailable"
             /\ ~captureSession'.isRunning
             /\ captureSession'.inputs = {}]_vars

\* C16 witness: prepare(front) failed on a phone with only a rear camera,
\* after a prepare(rear) had selected that camera and recorded its input.
C16_Witness ==
    /\ lastOp.op = "prepare"
    /\ lastOp.arg = "front"
    /\ lastOp.err = "noCamerasAvailable"
    /\ present = {"wide"}
    /\ rearCamera = "wide"
    /\ currentCamera = "wide"
    /\ cameraInput = "wide"
    /\ ~Running

\* Sample request i was accepted on a running session.
SampleAccepted(i) ==
    /\ i <= Len(requests)
    /\ requests[i].kind = "sample"
    /\ requests[i].accepted

\* The completion of request i has been called exactly once.
FulfilledOnce(i) ==
    /\ i <= Len(requests)
    /\ Len(requests[i].results) = 1

\* C17: every accepted captureSample is eventually fulfilled exactly once,
\* unless the session stops running first.
C17_SampleEventuallyFulfilled ==
    \A i \in 1..MaxRequests :
        SampleAccepted(i) ~> (FulfilledOnce(i) \/ ~Running)

\* What stop must leave alone: the attached inputs, the photo output, the
\* cameras, the stored flash mode, the stored zoom and the devices.
Wiring ==
    <<captureSession.exists, captureSession.inputs,
      captureSession.hasPhotoOutput, captureSession.openConfig,
      frontCamera, rearCamera, currentCamera, cameraInput,
      flashMode, videoZoomFactor, dev>>

\* C18: stop reports no error, with or without a session, leaves the session
\* not running and the wiring as it was; a second stop right after a stop
\* changes nothing at all.
C18_StopKeepsWiring ==
    [][lastOp'.op = "stop"
          => /\ lastOp'.err = None
             /\ ~captureSession'.isRunning
             /\ Wiring' = Wiring
             /\ lastOp.op = "stop" => captureSession' = captureSession]_vars

\* C18 witness: stop was called twice in a row on a session with its input and
\* photo output attached, with flash mode on stored and a pinch zoom of 1.5
\* committed.
C18_Witness ==
    /\ lastOp.op = "stop"
    /\ lastOp.again
    /\ captureSession.exists
    /\ ~captureSession.isRunning
    /\ captureSession.inputs # {}
    /\ captureSession.hasPhotoOutput
    /\ flashMode = "on"
    /\ videoZoomFactor = 15

\* C19: after prepare the session is running, or success was reported, only
\* if the camera input and the photo output are attached to the session.
C19_RunningOnlyWhenWired ==
    (lastOp.op = "prepare" /\ (Running \/ lastOp.err = None))
        => /\ captureSession.inputs # {}
           /\ captureSession.hasPhotoOutput

\* C20: a setFlashMode(m) with a supported m, an available torch and the
\* device lock granted leaves the torch of the current camera off, whichever
\* mode (on or auto) setTorchMode had put it in.
C20_FlashTurnsTorchOff ==
    [][\A m \in FlashModes :
          (/\ currentCamera # None
           /\ m \in SupportedFlashModes
           /\ SetFlashMode(m, TRUE, TRUE))
          => dev'[currentCamera].torchMode = "off"]_vars

\* What the claim says the completion receives for a hardware outcome.
ExpectedFulfillment(outcome) ==
    IF outcome = "error" THEN "hwError"
    ELSE IF outcome = "noImage" THEN "unknown"
    ELSE "image"

\* C21: one hardware photo callback calls the stored completion exactly once
\* and no other completion: with the hardware error when there is one, with
\* Unknown when the photo cannot be decoded, with the image otherwise.
C21_CallbackFulfillment ==
    [][lastOp'.op = "photoOutput"
          => /\ photoCaptureCompletionBlock # NoBlock
             /\ Len(requests') = Len(requests)
             /\ \A i \in 1..Len(requests) :
                    i # photoCaptureCompletionBlock => requests'[i] = requests[i]
             /\ requests'[photoCaptureCompletionBlock].results
                    = Append(requests[photoCaptureCompletionBlock].results,
                             ExpectedFulfillment(lastOp'.arg))]_vars

\* C21 witness: the callback of a photo that could not be decoded has
\* fulfilled a still capture with Unknown.
C21_Witness ==
    /\ lastOp.op = "photoOutput"
    /\ lastOp.arg = "noImage"
    /\ Len(requests) > 0
    /\ LastRequest.kind = "photo"
    /\ LastRequest.results = <<"unknown">>

\* The torch mode the claim asks for on camera d: on, else auto, else off.
BestTorchMode(d) ==
    IF TorchModeSupported(d, "on") THEN "on"
    ELSE IF TorchModeSupported(d, "auto") THEN "auto"
    ELSE "off"

InputInPlace ==
    /\ cameraInput # None
    /\ cameraInput \in captureSession.inputs
    /\ cameraInput = currentCamera

\* C23: a switchCameras that starts with the recorded input attached and
\* belonging to the current camera ends, whether it returns or throws, with
\* the recorded input attached and belonging to the current camera.
C23_SwitchKeepsInputInPlace ==
    [][(lastOp'.op = "switchCameras" /\ InputInPlace) => InputInPlace']_vars

\* C24: when prepare reports an error to its completion handler the session
\* is not running.
C24_PrepareErrorNotRunning ==
    (lastOp.op = "prepare" /\ lastOp.err # None) => ~Running

\* C25: a still capture that follows a successful switchCameras, on a session
\* whose photo output is attached and whose input is the current camera's,
\* is issued with a flash mode supported with that camera.
C25_CaptureFlashSupported ==
    [][(/\ lastOp.op = "switchCameras"
        /\ lastOp.err = None
        /\ lastOp'.op = "captureImage"
        /\ Running
        /\ captureSession.hasPhotoOutput
        /\ InputInPlace)
          => requests'[Len(requests')].flash \in DeviceFlashModes(currentCamera)]_vars

====
